---- MODULE Spec2Model ----
(***************************************************************************)
(* A model of the errorid package (github.com/isaui/go-support-id-error):  *)
(* the Handler's wrap-log-callback sequence, the global singleton with its *)
(* one-time Configure gate, and the HTTP recovery middleware.              *)
(*                                                                         *)
(* Pointers are indices into heaps (handlers, envs, maps); 0 is nil.       *)
(* Every call of the API is one record of `calls`; a goroutine executes    *)
(* one call at a time, step by step (field pc), so that calls of           *)
(* different goroutines and detached callbacks interleave.                 *)
(***************************************************************************)
EXTENDS Integers, Sequences, FiniteSets, TLC

VARIABLES
    build,           \* which of the repository's two Handler.logError is built
    now,             \* the wall clock, seconds since the epoch
    handlers,        \* heap of *Handler: handlers[h] is h.config
    defaultHandler,  \* package variable defaultHandler (a *Handler)
    configured,      \* package variable configured
    configureMu,     \* package variable configureMu: its holder, or NoGoroutine
    maps,            \* heap of map[string]interface{} objects
    envs,            \* heap of *ErrorWithID
    calls,           \* every API call made so far, with its position
    generated,       \* every call of an IDGenerator, with what it returned
    logged,          \* every Logger.Error / Logger.Info call, in order
    cb,              \* cb[e]: the OnError invocation for envelope e
    resp,            \* resp[c]: the http.ResponseWriter of request c
    middlewares      \* the *Handler each http.Handler made by the package's
                     \* RecoveryMiddleware has captured

vars == <<build, now, handlers, defaultHandler, configured, configureMu,
          maps, envs, calls, generated, logged, cb, resp, middlewares>>

-----------------------------------------------------------------------------
(* Bounds of the model *)

MaxCalls == 2
MaxTicks == 1
MaxHandlers == 2
MaxMiddlewares == 1

GoroutineSeq == <<"g1", "g2", "g3">>
Goroutines == {GoroutineSeq[i] : i \in 1..Len(GoroutineSeq)}
NoGoroutine == "none"

-----------------------------------------------------------------------------
(* Values *)

\* Go's nil (pointer, map, func, interface)
Nil == 0

SecondsPerDay == 24 * 60 * 60

\* The clock starts one second before midnight (UTC) of 2025-10-23.
Clock0 == 20384 * SecondsPerDay + (SecondsPerDay - 1)

NilErr == <<"nil", "">>

\* err.Error() for the error values of the model
ErrorText(err) ==
    IF err[1] = "panicError" THEN "panic: " \o err[2] ELSE err[2]

PanicContext == "panic recovered in HTTP handler"

IntVal(n) == <<"int", <<n>>, "">>
StrVal(s) == <<"string", <<>>, s>>
StackVal(st) == <<"string", st, "stack">>

Keys(m) == {kv[1] : kv \in m}

\* m[k] = v, as Go's map assignment: the entry for k is replaced
MapSet(m, k, v) == {kv \in m : kv[1] # k} \cup {<<k, v>>}

GenericMessage == "An internal error occurred. Please contact support with this error ID."

-----------------------------------------------------------------------------
(* generator.go *)

DigitChars == <<"0", "1", "2", "3", "4", "5", "6", "7", "8", "9">>
HexChars == DigitChars \o <<"a", "b", "c", "d", "e", "f">>

\* fmt's %d in the place of %0<width>d: no padding
RECURSIVE SprintfD(_, _)
SprintfD(n, width) ==
    IF n < 10
    THEN DigitChars[n + 1]
    ELSE SprintfD(n \div 10, width) \o DigitChars[(n % 10) + 1]

\* fmt's %0<width>d for n >= 0: decimal, zero-padded to at least width
RECURSIVE Sprintf0d(_, _)
Sprintf0d(n, width) ==
    IF n < 10 /\ width <= 1
    THEN DigitChars[n + 1]
    ELSE Sprintf0d(n \div 10, width - 1) \o DigitChars[(n % 10) + 1]

\* The civil date (year, month, day) of a day number counted from 1970-01-01
CivilFromDays(days) ==
    LET z == days + 719468
        era == z \div 146097
        doe == z - era * 146097
        yoe == (doe - doe \div 1460 + doe \div 36524 - doe \div 146096) \div 365
        doy == doe - (365 * yoe + yoe \div 4 - yoe \div 100)
        mp == (5 * doy + 2) \div 153
        d == doy - (153 * mp + 2) \div 5 + 1
        m == IF mp < 10 THEN mp + 3 ELSE mp - 9
        y == yoe + era * 400 + (IF m <= 2 THEN 1 ELSE 0)
    IN  <<y, m, d>>

\* time.Time.Format("20060102") of the instant t, the zone being UTC
Format20060102(t) ==
    LET ymd == CivilFromDays(t \div SecondsPerDay)
    IN  Sprintf0d(ymd[1], 4) \o Sprintf0d(ymd[2], 2) \o Sprintf0d(ymd[3], 2)

\* hex.EncodeToString
RECURSIVE EncodeToString(_)
EncodeToString(bytes) ==
    IF bytes = <<>>
    THEN ""
    ELSE HexChars[(Head(bytes) \div 16) + 1] \o HexChars[(Head(bytes) % 16) + 1]
         \o EncodeToString(Tail(bytes))

\* What one wrap draws from its environment: whether crypto/rand.Read
\* succeeds, the three bytes it yields, the nanosecond part of the clock
\* (UnixNano() % 1000000 is nsec % 1000000), and the seconds dt that have
\* passed since the clock was last read.
RandSources ==
    { [ok |-> TRUE,  bytes |-> <<163, 249, 178>>, nsec |-> 0,         dt |-> 0],
      [ok |-> FALSE, bytes |-> <<0, 0, 0>>,       nsec |-> 123000042, dt |-> 1] }

GenerateErrorID(t, src) ==
    LET date == Format20060102(t)
    IN  IF ~src.ok
        THEN "ERR-" \o date \o "-" \o Sprintf0d(src.nsec % 1000000, 6)
        ELSE "ERR-" \o date \o "-" \o EncodeToString(src.bytes)

\* The test suite's custom generator
CustomID == "CUSTOM-ID-123"

-----------------------------------------------------------------------------
(* config.go *)

\* A func(*ErrorWithID) is modelled by what a call of it does.
UserCallbacks == {"returns", "panics", "blocks"}

OnErrorValues == {"nil", "defaultOnError"} \cup UserCallbacks

Config ==
    [ OnError           : OnErrorValues,
      AsyncCallback     : BOOLEAN,
      Logger            : {"nil", "DefaultLogger", "customLogger"},
      IncludeStackTrace : BOOLEAN,
      Environment       : {"production", "development", ""},
      IDGenerator       : {"nil", "GenerateErrorID", "customGenerator"} ]

DefaultConfig ==
    [ OnError           |-> "defaultOnError",
      AsyncCallback     |-> FALSE,
      Logger            |-> "DefaultLogger",
      IncludeStackTrace |-> FALSE,
      Environment       |-> "production",
      IDGenerator       |-> "nil" ]

\* The configurations a program hands to New and Configure
UserConfigs ==
    [ OnError           : {"nil"} \cup UserCallbacks,
      AsyncCallback     : BOOLEAN,
      Logger            : {"nil", "customLogger"},
      IncludeStackTrace : BOOLEAN,
      Environment       : {"production", "development", ""},
      IDGenerator       : {"nil", "customGenerator"} ]

\* How a call of the callback f ends; "blocks" never ends.
CallbackOutcome(f) ==
    CASE f = "panics" -> "panic"
      [] f = "blocks" -> "never"
      [] OTHER        -> "return"

CallbackPanicValue == "sentry unreachable"

-----------------------------------------------------------------------------
(* handler.go: New *)

\* A New that keeps the configuration as it is given
NewWithoutDefaults(cfg) == cfg

New(cfg) ==
    [cfg EXCEPT
        !.IDGenerator = IF @ = "nil" THEN "GenerateErrorID" ELSE @,
        !.Logger      = IF @ = "nil" THEN "DefaultLogger" ELSE @]

-----------------------------------------------------------------------------
(* error_id.go: ErrorWithID *)

\* An Error that renders the context whether or not it is empty
ErrorAlwaysWithContext(e) ==
    "[" \o e.ID \o "] " \o e.Context \o ": " \o ErrorText(e.Original)

\* ErrorWithID.Error
Error(e) ==
    IF e.Context # ""
    THEN "[" \o e.ID \o "] " \o e.Context \o ": " \o ErrorText(e.Original)
    ELSE "[" \o e.ID \o "] " \o ErrorText(e.Original)

\* An Unwrap that returns a new error with the text of the original
UnwrapAsNewError(e) == <<"errorString", ErrorText(e.Original), 0>>

\* ErrorWithID.Unwrap
Unwrap(e) == e.Original

\* errors.Is(e, target) for an envelope e and a target that is no envelope:
\* e itself is not the target, its chain goes on with Unwrap
ErrorsIs(e, target) == Unwrap(e) = target

\* The frames of the calling goroutine when captureStackTrace runs, innermost
\* first, for each way into WrapWithDetails.
EntryFrames(op) ==
    CASE op = "Handler.WrapWithDetails" -> <<"errorid.(*Handler).WrapWithDetails", "main.caller">>
      [] op = "Handler.Wrap" ->
            <<"errorid.(*Handler).WrapWithDetails", "errorid.(*Handler).Wrap", "main.caller">>
      [] op = "WrapWithDetails" ->
            <<"errorid.(*Handler).WrapWithDetails", "errorid.WrapWithDetails", "main.caller">>
      [] op = "Wrap" ->
            <<"errorid.(*Handler).WrapWithDetails", "errorid.(*Handler).Wrap",
              "errorid.Wrap", "main.caller">>
      [] OTHER ->
            <<"errorid.(*Handler).WrapWithDetails",
              "errorid.(*Handler).RecoveryMiddleware.func1.1", "panic",
              "main.next", "errorid.(*Handler).RecoveryMiddleware.func1">>

\* A captureStackTrace that captures nothing
captureStackTraceNothing(skip, frames) == <<>>

\* captureStackTrace: runtime.Stack of the current goroutine; skip is not used.
captureStackTrace(skip, frames) ==
    <<"goroutine [running]:", "errorid.captureStackTrace">> \o frames

NoStackTrace == <<>>

-----------------------------------------------------------------------------
(* The calls of the API *)

WrapOps == {"Wrap", "WrapWithDetails", "Handler.Wrap", "Handler.WrapWithDetails"}
PackageOps == {"Wrap", "WrapWithDetails"}

\* An http.ResponseWriter nothing was written to: the Content-Type of its
\* header map, whether the status line and the headers were sent, the status
\* and the Content-Type sent, the body written, and the values encoded
\* into it by writeErrorResponse
NoResponse ==
    [header |-> "", wroteHeader |-> FALSE, status |-> 0, contentType |-> "",
     body |-> <<>>, encoded |-> <<>>]

\* The *http.Request of a call that serves none
NoRequest == [Method |-> "", Path |-> "", RemoteAddr |-> ""]

\* A call of op made by goroutine g on handler h.
NewCall(op, g, h, err, ctx, det, pc) ==
    [op |-> op, g |-> g, h |-> h, err |-> err, ctx |-> ctx,
     det |-> det,                         \* the details argument (a map pointer)
     det0 |-> IF det = Nil THEN {} ELSE maps'[det],  \* its contents at the call
     pc |-> pc,
     env |-> Nil,                         \* the local variable wrapped
     ret |-> IF pc = "done" THEN "nil" ELSE "none",
     cfg |-> DefaultConfig,               \* Configure's argument
     rec |-> NilErr,                      \* what recover() returned
     out |-> "",                          \* the string a method call returned
     req |-> NoRequest]                   \* the request a middleware serves

Idle(g) == \A c \in 1..Len(calls) : calls[c].g = g => calls[c].pc = "done"

CallIds == 1..Len(calls)

At(c, pc) == c \in CallIds /\ calls[c].pc = pc

\* The calls that wrap an error (the recovery middleware's wrap included)
Wrapping(c) == calls[c].op \in WrapOps \cup {"ServeHTTP"}

\* A call that takes its configuration from the process-wide handler
CfgOfGlobal(c) == handlers[defaultHandler]

\* h.config, for the handler h the call c was made on
CfgOf(c) == handlers[calls[c].h]

-----------------------------------------------------------------------------
(* handler.go: WrapWithDetails *)

\* error_id.go:376 - the handler made at package initialisation is the
\* first of handlers
InitialHandler == 1

\* A Default() that keeps returning the handler of package initialisation
DefaultAlwaysInitial == InitialHandler

\* error_id.go:409-411 - Default(); Wrap and WrapWithDetails of the package
\* read the same variable (error_id.go:398-405)
Default == defaultHandler

\* A WrapWithDetails without its first statement
IsNilErrorNever(err) == FALSE

\* handler.go:38 - the test that makes wrapping a nil error a no-op
IsNilError(err) == err = NilErr

\* A goroutine calls Wrap or WrapWithDetails, of the package or of handler h,
\* with its own details map d. A nil error returns nil at once.
CallWrap(g, op, h, err, ctx, d) ==
    /\ Len(calls) < MaxCalls
    /\ Idle(g)
    /\ h \in 1..Len(handlers)
    /\ op \in PackageOps => h = Default
    /\ op \in {"Wrap", "Handler.Wrap"} => d[1] = "nil"
    /\ maps' = IF d[1] = "nil" THEN maps ELSE Append(maps, d[2])
    /\ LET det == IF d[1] = "nil" THEN Nil ELSE Len(maps) + 1
       IN  calls' = Append(calls,
                NewCall(op, g, h, err, ctx, det,
                        IF IsNilError(err) THEN "done" ELSE "generate"))
    /\ resp' = Append(resp, NoResponse)
    /\ UNCHANGED <<middlewares, build, now, handlers, defaultHandler, configured, configureMu,
                   envs, generated, logged, cb>>

\* h.config.IDGenerator()
IDGeneratorResult(cfg, t, src) ==
    IF cfg.IDGenerator = "customGenerator" THEN CustomID ELSE GenerateErrorID(t, src)

\* An envelope built without the caller's details
NewErrorWithIDDroppingDetails(cfg, errorID, c, t) ==
    [ID |-> errorID,
     Original |-> c.err,
     Context |-> c.ctx,
     Details |-> Nil,
     Timestamp |-> t,
     StackTrace |-> NoStackTrace]

\* handler.go:44-55 - the envelope
NewErrorWithID(cfg, errorID, c, t) ==
    [ID |-> errorID,
     Original |-> c.err,
     Context |-> c.ctx,
     Details |-> c.det,
     Timestamp |-> t,
     StackTrace |-> IF cfg.IncludeStackTrace
                    THEN captureStackTrace(2, EntryFrames(c.op))
                    ELSE NoStackTrace]

NoCallback == [state |-> "none", mode |-> "none", arg |-> Nil, started |-> 0, h |-> Nil]

\* handler.go:42-55. The clock is read here and nowhere else.
Generate(c, src) ==
    /\ At(c, "generate")
    /\ IF CfgOf(c).IDGenerator = "nil"
       THEN \* the call of a nil func panics
            /\ calls' = [calls EXCEPT ![c].ret = "panic", ![c].pc = "done"]
            /\ UNCHANGED <<now, generated, envs, cb>>
       ELSE /\ now' = IF now + src.dt <= Clock0 + MaxTicks THEN now + src.dt ELSE now
            /\ generated' = Append(generated,
                                [h |-> calls[c].h, call |-> c,
                                 id |-> IDGeneratorResult(CfgOf(c), now', src)])
            /\ envs' = Append(envs,
                          NewErrorWithID(CfgOf(c), generated'[Len(generated')].id,
                                         calls[c], now'))
            /\ cb' = Append(cb, NoCallback)
            /\ calls' = [calls EXCEPT ![c].env = Len(envs) + 1, ![c].pc = "log"]
    /\ UNCHANGED <<middlewares, build, handlers, defaultHandler, configured, configureMu,
                   maps, logged, resp>>

-----------------------------------------------------------------------------
(* logError: the repository holds two definitions of it *)

Builds == {"handler.go", "middleware.go"}

\* The stackTrace argument of a Logger.Error that has no such parameter
NoArgument == <<"no such argument">>

LogEntry(kind, c, e, detRef, details, stack, msg) ==
    [kind |-> kind, call |-> c, h |-> calls[c].h, logger |-> CfgOf(c).Logger,
     id |-> IF e = Nil THEN "" ELSE envs[e].ID,
     err |-> IF e = Nil THEN NilErr ELSE envs[e].Original,
     ctx |-> IF e = Nil THEN "" ELSE envs[e].Context,
     detRef |-> detRef, details |-> details, stack |-> stack, msg |-> msg]

\* handler.go:75-93: the details are copied into a fresh map, the timestamp
\* is added to the copy and the stack trace is a separate argument.
logErrorCopying(c) ==
    LET e == calls[c].env
        src == IF envs[e].Details = Nil THEN {} ELSE maps[envs[e].Details]
        details == MapSet(src, "timestamp", IntVal(envs[e].Timestamp))
    IN  IF CfgOf(c).Logger = "nil"
        THEN UNCHANGED <<maps, logged>>
        ELSE /\ maps' = Append(maps, details)
             /\ logged' = Append(logged,
                    LogEntry("Error", c, e, Len(maps) + 1, details,
                             envs[e].StackTrace, ""))

\* middleware.go:166-182: the timestamp and the stack trace are stored into
\* the envelope's own Details map, which is the caller's map.
logErrorMerging(c) ==
    LET e == calls[c].env
        fresh == envs[e].Details = Nil
        ref == IF fresh THEN Len(maps) + 1 ELSE envs[e].Details
        src == IF fresh THEN {} ELSE maps[envs[e].Details]
        stamped == MapSet(src, "timestamp", IntVal(envs[e].Timestamp))
        details == IF envs[e].StackTrace # NoStackTrace
                   THEN MapSet(stamped, "stack_trace", StackVal(envs[e].StackTrace))
                   ELSE stamped
    IN  IF CfgOf(c).Logger = "nil"
        THEN UNCHANGED <<maps, logged>>
        ELSE /\ maps' = IF fresh THEN Append(maps, details)
                        ELSE [maps EXCEPT ![ref] = details]
             /\ logged' = Append(logged,
                    LogEntry("Error", c, e, ref, details, NoArgument, ""))

\* A logError that returns without a call of the logger
logErrorSilent(c) == UNCHANGED <<maps, logged>>

logError(c) ==
    IF build = "handler.go" THEN logErrorCopying(c) ELSE logErrorMerging(c)

\* handler.go:58
Log(c) ==
    /\ At(c, "log")
    /\ logError(c)
    /\ calls' = [calls EXCEPT ![c].pc = "callback"]
    /\ UNCHANGED <<middlewares, build, now, handlers, defaultHandler, configured, configureMu,
                   envs, generated, cb, resp>>

-----------------------------------------------------------------------------
(* safeCallback and the dispatch of OnError *)

\* A dispatch that always detaches the callback
DispatchModeAlwaysGo(cfg) ==
    IF cfg.OnError = "nil" THEN "skip" ELSE "go"

\* A dispatch that always calls the callback in the caller's goroutine
DispatchModeAlwaysCall(cfg) ==
    IF cfg.OnError = "nil" THEN "skip" ELSE "call"

\* handler.go:61-69: "skip" without a callback, "go" for a detached
\* goroutine, "call" for a call in the caller's goroutine
DispatchMode(cfg) ==
    IF cfg.OnError = "nil" THEN "skip"
    ELSE IF cfg.AsyncCallback THEN "go" ELSE "call"

\* handler.go:106 - OnError is entered with the envelope e
InvokeOnError(c, e, arg, mode) ==
    cb' = [cb EXCEPT ![e] = [state |-> "running", mode |-> mode, arg |-> arg,
                             started |-> @.started + 1, h |-> calls[c].h]]

\* handler.go:60-69
Dispatch(c) ==
    /\ At(c, "callback")
    /\ LET mode == DispatchMode(CfgOf(c))
           e == calls[c].env
       IN  CASE mode = "skip" ->
                  /\ calls' = [calls EXCEPT ![c].pc = "return"]
                  /\ UNCHANGED cb
             [] mode = "go" ->
                  /\ cb' = [cb EXCEPT ![e] = [@ EXCEPT !.state = "spawned",
                                                       !.mode = "async",
                                                       !.h = calls[c].h]]
                  /\ calls' = [calls EXCEPT ![c].pc = "return"]
             [] OTHER ->
                  /\ InvokeOnError(c, e, e, "sync")
                  /\ calls' = [calls EXCEPT ![c].pc = "oncall"]
    /\ UNCHANGED <<middlewares, build, now, handlers, defaultHandler, configured, configureMu,
                   maps, envs, generated, logged, resp>>

\* A safeCallback without its deferred recover
safeCallbackNoRecover(outcome, logger) ==
    [propagates |-> outcome = "panic", info |-> FALSE]

\* handler.go:97-104 - the deferred function of safeCallback: whether a panic
\* of OnError leaves safeCallback, and whether Logger.Info reports it
safeCallback(outcome, logger) ==
    [propagates |-> FALSE,
     info |-> outcome = "panic" /\ logger # "nil"]

\* The end of OnError for the envelope of call c, and of safeCallback
EndOnError(c) ==
    LET outcome == CallbackOutcome(CfgOf(c).OnError)
        e == calls[c].env
        end == safeCallback(outcome, CfgOf(c).Logger)
    IN  /\ outcome # "never"
        /\ cb[e].state = "running"
        /\ logged' = IF end.info
                     THEN Append(logged,
                            LogEntry("Info", c, e, Nil, {}, NoArgument,
                                     "OnError callback panicked: " \o CallbackPanicValue))
                     ELSE logged
        /\ cb' = [cb EXCEPT ![e].state =
                        CASE outcome = "panic" /\ end.propagates -> "crashed"
                          [] outcome = "panic" -> "recovered"
                          [] OTHER -> "returned"]

\* handler.go:67 returns, or the panic of OnError passes through it
SyncCallbackEnd(c) ==
    /\ At(c, "oncall")
    /\ EndOnError(c)
    /\ calls' = IF cb'[calls[c].env].state = "crashed"
                THEN [calls EXCEPT ![c].ret = "panic", ![c].pc = "done"]
                ELSE [calls EXCEPT ![c].pc = "return"]
    /\ UNCHANGED <<middlewares, build, now, handlers, defaultHandler, configured, configureMu,
                   maps, envs, generated, resp>>

\* A detached callback that reads the envelope from a field shared by the
\* wraps of the handler, where the latest wrap stored its own
GoArgumentShared(c) == Len(envs)

\* handler.go:64 - go h.safeCallback(wrapped): the argument is the wrap's
\* local variable, evaluated by the go statement
GoArgument(c) == calls[c].env

\* handler.go:64 - the goroutine started by the go statement runs safeCallback
DetachedStart(c) ==
    /\ c \in CallIds
    /\ Wrapping(c)
    /\ calls[c].env # Nil
    /\ cb[calls[c].env].state = "spawned"
    /\ InvokeOnError(c, calls[c].env, GoArgument(c), "async")
    /\ UNCHANGED <<middlewares, build, now, handlers, defaultHandler, configured, configureMu,
                   maps, envs, calls, generated, logged, resp>>

DetachedEnd(c) ==
    /\ c \in CallIds
    /\ Wrapping(c)
    /\ calls[c].env # Nil
    /\ cb[calls[c].env].mode = "async"
    /\ EndOnError(c)
    /\ UNCHANGED <<middlewares, build, now, handlers, defaultHandler, configured, configureMu,
                   maps, envs, calls, generated, resp>>

\* handler.go:71
ReturnWrapped(c) ==
    /\ At(c, "return")
    /\ calls' = [calls EXCEPT ![c].ret = "env",
                              ![c].pc = IF @ = "return" /\ calls[c].op = "ServeHTTP"
                                        THEN "respond" ELSE "done"]
    /\ UNCHANGED <<middlewares, build, now, handlers, defaultHandler, configured, configureMu,
                   maps, envs, generated, logged, cb, resp>>

-----------------------------------------------------------------------------
(* error_id.go: Configure *)

\* A Configure without the mutex
MutexFreeAlways(mu) == TRUE

\* sync.Mutex: Lock returns when no goroutine holds the mutex
MutexFree(mu) == mu = NoGoroutine

\* A Configure that returns silently when called again
AlreadyConfiguredIgnored == "return"

\* error_id.go:388-390 - what Configure does when configured is set
AlreadyConfigured == "panic"

\* A Configure whose Unlock is its last statement, not deferred: a panic
\* leaves the mutex locked
UnlockOnPanicMissing(mu) == mu

\* error_id.go:386 - defer configureMu.Unlock(), run when Configure panics
UnlockOnPanic(mu) == NoGoroutine

\* A goroutine calls Configure(cfg).
CallConfigure(g, cfg) ==
    /\ Len(calls) < MaxCalls
    /\ Idle(g)
    /\ calls' = Append(calls,
            [NewCall("Configure", g, Nil, NilErr, "", Nil, "lock") EXCEPT !.cfg = cfg])
    /\ resp' = Append(resp, NoResponse)
    /\ UNCHANGED <<middlewares, build, now, handlers, defaultHandler, configured, configureMu,
                   maps, envs, generated, logged, cb>>

\* error_id.go:385 - configureMu.Lock()
Lock(c) ==
    /\ At(c, "lock")
    /\ MutexFree(configureMu)
    /\ configureMu' = calls[c].g
    /\ calls' = [calls EXCEPT ![c].pc = "check"]
    /\ UNCHANGED <<middlewares, build, now, handlers, defaultHandler, configured,
                   maps, envs, generated, logged, cb, resp>>

\* error_id.go:388-390 - the panic runs the deferred Unlock and leaves Configure
CheckConfigured(c) ==
    /\ At(c, "check")
    /\ IF configured
       THEN /\ calls' = [calls EXCEPT
                            ![c].ret = IF AlreadyConfigured = "panic" THEN "panic" ELSE "ok",
                            ![c].pc = "done"]
            /\ configureMu' = UnlockOnPanic(configureMu)
       ELSE /\ calls' = [calls EXCEPT ![c].pc = "install"]
            /\ UNCHANGED configureMu
    /\ UNCHANGED <<middlewares, build, now, handlers, defaultHandler, configured,
                   maps, envs, generated, logged, cb, resp>>

\* error_id.go:392 - defaultHandler = New(cfg)
Install(c) ==
    /\ At(c, "install")
    /\ handlers' = Append(handlers, New(calls[c].cfg))
    /\ defaultHandler' = Len(handlers) + 1
    /\ calls' = [calls EXCEPT ![c].h = Len(handlers) + 1, ![c].pc = "set"]
    /\ UNCHANGED <<middlewares, build, now, configured, configureMu,
                   maps, envs, generated, logged, cb, resp>>

\* error_id.go:393 - configured = true, then the deferred Unlock and the return
SetConfigured(c) ==
    /\ At(c, "set")
    /\ configured' = TRUE
    /\ configureMu' = NoGoroutine
    /\ calls' = [calls EXCEPT ![c].ret = "ok", ![c].pc = "done"]
    /\ UNCHANGED <<middlewares, build, now, handlers, defaultHandler,
                   maps, envs, generated, logged, cb, resp>>

\* error_id.go:409-411 - a goroutine calls Default()
CallDefault(g) ==
    /\ Len(calls) < MaxCalls
    /\ Idle(g)
    /\ calls' = Append(calls,
          [NewCall("Default", g, Default, NilErr, "", Nil, "done") EXCEPT !.ret = "ok"])
    /\ resp' = Append(resp, NoResponse)
    /\ UNCHANGED <<middlewares, build, now, handlers, defaultHandler, configured, configureMu,
                   maps, envs, generated, logged, cb>>

ConfigureSteps ==
    \/ \E c \in 1..MaxCalls : Lock(c)
    \/ \E c \in 1..MaxCalls : CheckConfigured(c)
    \/ \E c \in 1..MaxCalls : Install(c)
    \/ \E c \in 1..MaxCalls : SetConfigured(c)

-----------------------------------------------------------------------------
(* middleware.go *)

StatusInternalServerError == 500

\* net/http's ResponseWriter, as middleware.go:54-70 uses it.
\* w.Header().Set("Content-Type", v)
HeaderSet(w, v) == [w EXCEPT !.header = v]

\* w.WriteHeader(code): the first call sends the status and the headers as
\* they are then; a later call is ignored.
WriteHeader(w, code) ==
    IF w.wroteHeader
    THEN w
    ELSE [w EXCEPT !.wroteHeader = TRUE, !.status = code, !.contentType = w.header]

\* w.Write(data): sends the headers with http.StatusOK if they were not sent
\* yet
Write(w, data) ==
    LET w1 == WriteHeader(w, 200)
    IN  [w1 EXCEPT !.body = Append(@, data)]

\* json.NewEncoder(w).Encode(response) of an ErrorResponse
EncodeJSON(response) ==
    "{\"error_id\":\"" \o response.ErrorID \o "\",\"message\":\"" \o response.Message
    \o "\",\"timestamp\":" \o Sprintf0d(response.Timestamp, 1) \o "}\n"

\* A message that is generic in production only
ClientMessageUnlessProduction(cfg, e) ==
    IF cfg.Environment # "production" THEN Error(e) ELSE GenericMessage

\* middleware.go:57-62
ClientMessage(cfg, e) ==
    IF cfg.Environment = "development" THEN Error(e) ELSE GenericMessage

\* middleware.go:64-68
ErrorResponse(cfg, e) ==
    [ErrorID |-> e.ID, Message |-> ClientMessage(cfg, e), Timestamp |-> e.Timestamp]

\* middleware.go:53-71, err being a non-nil *ErrorWithID
writeErrorResponse(cfg, w, e) ==
    LET w1 == HeaderSet(w, "application/json")
        w2 == WriteHeader(w1, StatusInternalServerError)
        w3 == Write(w2, EncodeJSON(ErrorResponse(cfg, e)))
    IN  [w3 EXCEPT !.encoded = Append(@, ErrorResponse(cfg, e))]

\* middleware.go:53-65 for a nil err: the header is written, then err is
\* dereferenced (line 61 in development, line 65 otherwise) and the call
\* panics
writeErrorResponseNil(w) ==
    WriteHeader(HeaderSet(w, "application/json"), StatusInternalServerError)

\* What the wrapped handler (next) does to the response before it returns or
\* panics
NextWrites(w, writes) ==
    CASE writes = "header" -> HeaderSet(w, "text/plain")
      [] writes = "body"   -> Write(HeaderSet(w, "text/html"), "<html>partial")
      [] OTHER             -> w

\* A middleware without the deferred recover
DeferredRecoverMissing == FALSE

\* middleware.go:25-26 - the deferred function calls recover()
DeferredRecover == TRUE

\* The values a handler panics with, as <<type, rendered value>>
IsErrorValue(v) == v[1] \in {"errorString", "panicError"}

\* A recovery that wraps the panic without the request's details
RequestDetailsNone(r) == {}

\* A recovery that wraps every panic value, errors included, in the adapter
PanicAsErrorAlwaysAdapter(rec) == <<"panicError", rec[2]>>

\* middleware.go:28-34
PanicAsError(rec) ==
    IF IsErrorValue(rec) THEN rec ELSE <<"panicError", rec[2]>>

\* middleware.go:37-41
RequestDetails(r) ==
    { <<"method", StrVal(r.Method)>>, <<"path", StrVal(r.Path)>>,
      <<"remote", StrVal(r.RemoteAddr)>> }

NoPanic == <<"no panic", "">>

\* A deferred function that does not test what recover() returned
RecoveredAlways(rec) == TRUE

\* middleware.go:26 - rec := recover(); rec != nil
Recovered(rec) == rec # NoPanic

\* A request r is served by the middleware of handler h; next runs, writes
\* to the response and returns (outcome NoPanic) or panics with outcome.
CallServeHTTP(g, h, r, writes, outcome) ==
    /\ Len(calls) < MaxCalls
    /\ Idle(g)
    /\ h \in 1..Len(handlers)
    /\ resp' = Append(resp, NextWrites(NoResponse, writes))
    /\ calls' = Append(calls,
          [NewCall("ServeHTTP", g, h, NilErr, "", Nil, "recover") EXCEPT
              !.rec = outcome,
              !.req = r,
              !.pc = IF Recovered(outcome) /\ DeferredRecover THEN "recover" ELSE "done",
              !.ret = CASE Recovered(outcome) /\ DeferredRecover -> "none"
                        [] outcome = NoPanic -> "ok"
                        [] OTHER -> "panic"])
    /\ UNCHANGED <<middlewares, build, now, handlers, defaultHandler, configured, configureMu,
                   maps, envs, generated, logged, cb>>

Requests ==
    { [Method |-> "GET", Path |-> "/panic", RemoteAddr |-> "10.0.0.1:4711"],
      [Method |-> "POST", Path |-> "/orders", RemoteAddr |-> "10.0.0.2:4712"] }

RequestOf(path) == CHOOSE r \in Requests : r.Path = path

\* middleware.go:26-41 - recover() returned calls[c].rec; WrapWithDetails is
\* entered with the error made of it
Recover(c) ==
    /\ At(c, "recover")
    /\ maps' = Append(maps, RequestDetails(calls[c].req))
    /\ calls' = [calls EXCEPT
                    ![c].err = PanicAsError(calls[c].rec),
                    ![c].ctx = PanicContext,
                    ![c].det = Len(maps) + 1,
                    ![c].det0 = maps'[Len(maps) + 1],
                    ![c].pc = IF IsNilError(PanicAsError(calls[c].rec))
                              THEN "respond" ELSE "generate"]
    /\ UNCHANGED <<middlewares, build, now, handlers, defaultHandler, configured, configureMu,
                   envs, generated, logged, cb, resp>>

\* middleware.go:44 - h.writeErrorResponse(w, wrapped); a nil wrapped is
\* dereferenced at line 65, after the header was written
Respond(c) ==
    /\ At(c, "respond")
    /\ IF calls[c].env = Nil
       THEN /\ resp' = [resp EXCEPT ![c] = writeErrorResponseNil(@)]
            /\ calls' = [calls EXCEPT ![c].ret = "panic", ![c].pc = "done"]
       ELSE /\ resp' = [resp EXCEPT ![c] =
                          writeErrorResponse(CfgOf(c), @, envs[calls[c].env])]
            /\ calls' = [calls EXCEPT ![c].ret = "ok", ![c].pc = "done"]
    /\ UNCHANGED <<middlewares, build, now, handlers, defaultHandler, configured, configureMu,
                   maps, envs, generated, logged, cb>>

WriteOps == {"WriteError", "Handler.WriteError"}

\* middleware.go:74-81 - a goroutine hands the envelope that the wrap d
\* returned to WriteError (of the package, or of handler h), with a
\* ResponseWriter nothing was written to
CallWriteError(g, op, h, d) ==
    /\ Len(calls) < MaxCalls
    /\ Idle(g)
    /\ h \in 1..Len(handlers)
    /\ op = "WriteError" => h = defaultHandler
    /\ d \in CallIds
    /\ calls[d].op \in WrapOps
    /\ calls[d].pc = "done"
    /\ calls[d].ret \in {"env", "nil"}
    /\ LET e == calls[d].env
       IN  /\ calls' = Append(calls,
                  [NewCall(op, g, h, calls[d].err, calls[d].ctx, Nil, "done") EXCEPT
                      !.env = e,
                      !.ret = IF e = Nil THEN "panic" ELSE "ok"])
           /\ resp' = Append(resp,
                  IF e = Nil
                  THEN writeErrorResponseNil(NoResponse)
                  ELSE writeErrorResponse(handlers[h], NoResponse, envs[e]))
    /\ UNCHANGED <<middlewares, build, now, handlers, defaultHandler, configured, configureMu,
                   maps, envs, generated, logged, cb>>

\* handler.go:15-29 - a goroutine makes a handler with New(cfg)
CallNew(g, cfg) ==
    /\ Len(calls) < MaxCalls
    /\ Len(handlers) < MaxHandlers
    /\ Idle(g)
    /\ handlers' = Append(handlers, New(cfg))
    /\ calls' = Append(calls,
          [NewCall("New", g, Len(handlers) + 1, NilErr, "", Nil, "done") EXCEPT
              !.cfg = cfg,
              !.ret = "ok"])
    /\ resp' = Append(resp, NoResponse)
    /\ UNCHANGED <<middlewares, build, now, defaultHandler, configured, configureMu,
                   maps, envs, generated, logged, cb>>

\* error_id.go - a goroutine calls the Error method of the envelope e
CallError(g, e) ==
    /\ Len(calls) < MaxCalls
    /\ Idle(g)
    /\ e \in 1..Len(envs)
    /\ calls' = Append(calls,
          [NewCall("Error", g, Nil, envs[e].Original, envs[e].Context, Nil, "done") EXCEPT
              !.env = e,
              !.ret = "ok",
              !.out = Error(envs[e])])
    /\ resp' = Append(resp, NoResponse)
    /\ UNCHANGED <<middlewares, build, now, handlers, defaultHandler, configured, configureMu,
                   maps, envs, generated, logged, cb>>

\* generator.go:12-24 - a goroutine calls GenerateErrorID at the instant t;
\* the clock does not run backwards
CallGenerateErrorID(g, t, src) ==
    /\ Len(calls) < MaxCalls
    /\ Idle(g)
    /\ t >= now
    /\ now' = t
    /\ calls' = Append(calls,
          [NewCall("GenerateErrorID", g, Nil, NilErr, "", Nil, "done") EXCEPT
              !.ret = "ok",
              !.out = GenerateErrorID(t, src)])
    /\ resp' = Append(resp, NoResponse)
    /\ UNCHANGED <<middlewares, build, handlers, defaultHandler, configured, configureMu,
                   maps, envs, generated, logged, cb>>

\* A middleware that asks Default() for the handler at every request
BoundHandlerCurrent(m) == defaultHandler

\* middleware.go:23-24 - the h that the function returned by
\* RecoveryMiddleware has captured
BoundHandler(m) == middlewares[m]

\* middleware.go:18-20 - a goroutine calls the package's RecoveryMiddleware:
\* Default().RecoveryMiddleware(next)
CallRecoveryMiddleware(g) ==
    /\ Len(middlewares) < MaxMiddlewares
    /\ Idle(g)
    /\ middlewares' = Append(middlewares, Default)
    /\ UNCHANGED <<build, now, handlers, defaultHandler, configured, configureMu,
                   maps, envs, calls, generated, logged, cb, resp>>

\* A request is served by the middleware m the package's RecoveryMiddleware
\* made
CallServeBound(g, m, r, writes, outcome) ==
    /\ m \in 1..Len(middlewares)
    /\ CallServeHTTP(g, BoundHandler(m), r, writes, outcome)

MiddlewareSteps ==
    \/ \E c \in 1..MaxCalls : Recover(c)
    \/ \E c \in 1..MaxCalls : Respond(c)

-----------------------------------------------------------------------------
(* Specifications *)

\* The package after initialisation (error_id.go:376-380), with the handlers
\* the program made by New(cfg), cfg in cfgs, if any
InitWith(cfgs) ==
    /\ build \in Builds
    /\ now = Clock0
    /\ \/ cfgs = {} /\ handlers = <<New(DefaultConfig)>>
       \/ \E cfg \in cfgs : handlers = <<New(DefaultConfig), New(cfg)>>
    /\ defaultHandler = 1
    /\ configured = FALSE
    /\ configureMu = NoGoroutine
    /\ maps = <<>>
    /\ envs = <<>>
    /\ calls = <<>>
    /\ generated = <<>>
    /\ logged = <<>>
    /\ cb = <<>>
    /\ resp = <<>>
    /\ middlewares = <<>>

\* The configurations of the handler made by New: every callback, mode and
\* stack setting, with the generator and the logger both left unset or
\* both set.
WrapConfigs ==
    {cfg \in UserConfigs :
        /\ cfg.Environment = "production"
        /\ (cfg.Logger = "nil") = (cfg.IDGenerator = "nil")}

\* Two error values a program made: <<type, text, address>>
Err1 == <<"errorString", "connection timeout", 1>>
Err2 == <<"errorString", "user not found", 2>>

\* The wraps a program makes: <<operation, handler, error, context, details>>
WrapCalls ==
    { <<"Wrap", 1, NilErr, "database query failed", <<"nil", {}>>>>,
      <<"Handler.WrapWithDetails", 2, NilErr, "",
            <<"map", {<<"user_id", IntVal(12345)>>}>>>>,
      <<"Wrap", 1, Err1, "database query failed", <<"nil", {}>>>>,
      <<"WrapWithDetails", 1, Err2, "", <<"map", {}>>>>,
      <<"Handler.Wrap", 2, Err2, "", <<"nil", {}>>>>,
      <<"Handler.WrapWithDetails", 2, Err1, "database query failed",
            <<"map", {<<"user_id", IntVal(12345)>>}>>>>,
      <<"Handler.WrapWithDetails", 2, Err2, "",
            <<"map", {<<"timestamp", StrVal("yesterday")>>,
                      <<"action", StrVal("checkout")>>}>>>> }

Init == InitWith(WrapConfigs)

WrapSteps ==
    \/ \E c \in 1..MaxCalls, src \in RandSources : Generate(c, src)
    \/ \E c \in 1..MaxCalls : Log(c)
    \/ \E c \in 1..MaxCalls : Dispatch(c)
    \/ \E c \in 1..MaxCalls : SyncCallbackEnd(c)
    \/ \E c \in 1..MaxCalls : DetachedStart(c)
    \/ \E c \in 1..MaxCalls : DetachedEnd(c)
    \/ \E c \in 1..MaxCalls : ReturnWrapped(c)

\* One goroutine wraps errors, one call after the other; detached callbacks
\* run beside it.
Next ==
    \/ \E a \in WrapCalls : CallWrap("g1", a[1], a[2], a[3], a[4], a[5])
    \/ WrapSteps

Spec == Init /\ [][Next]_vars

\* The goroutine that makes the next call: the first idle one
Caller(g) ==
    \E i \in 1..Len(GoroutineSeq) :
        /\ g = GoroutineSeq[i]
        /\ Idle(g)
        /\ \A j \in 1..(i - 1) : ~Idle(GoroutineSeq[j])

\* The configurations handed to Configure: the zero Config, and one that
\* sets every field
ConfigureConfigs ==
    { [OnError |-> "nil", AsyncCallback |-> FALSE, Logger |-> "nil",
       IncludeStackTrace |-> FALSE, Environment |-> "", IDGenerator |-> "nil"],
      [OnError |-> "returns", AsyncCallback |-> TRUE, Logger |-> "customLogger",
       IncludeStackTrace |-> TRUE, Environment |-> "development",
       IDGenerator |-> "customGenerator"] }

\* The wraps made through the package's functions
PackageWrapCalls == {a \in WrapCalls : a[1] \in PackageOps}

InitConfigure == InitWith({})

\* Goroutines call Configure and the package's Wrap and WrapWithDetails,
\* concurrently.
NextConfigure ==
    \/ \E g \in Goroutines, cfg \in ConfigureConfigs : Caller(g) /\ CallConfigure(g, cfg)
    \/ \E g \in Goroutines, a \in PackageWrapCalls :
            Caller(g) /\ CallWrap(g, a[1], Default, a[3], a[4], a[5])
    \/ \E g \in Goroutines : Caller(g) /\ CallDefault(g)
    \/ ConfigureSteps
    \/ WrapSteps

SpecConfigure == InitConfigure /\ [][NextConfigure]_vars

\* The configurations of the handler whose middleware serves the requests:
\* no callback or one that returns or panics, in either mode, in production
\* and in development, and the zero Environment
HTTPConfigs ==
    {cfg \in UserConfigs :
        /\ cfg.Logger = "customLogger"
        /\ cfg.IDGenerator = "nil"
        /\ ~cfg.IncludeStackTrace
        /\ cfg.OnError # "blocks"
        /\ cfg.Environment = "" => (cfg.OnError = "nil" /\ ~cfg.AsyncCallback)}

\* The requests served: <<handler of the middleware, request, what next
\* writes, how next ends>>
RequestCalls ==
    { <<1, "/orders", "none", NoPanic>>,
      <<2, "/orders", "body", NoPanic>>,
      <<2, "/panic", "none", Err1>>,
      <<2, "/panic", "header", <<"string", "something went wrong">>>>,
      <<2, "/orders", "body", <<"string", "something went wrong">>>>,
      <<1, "/panic", "none", <<"int", "42">>>> }

\* The wraps whose result a handler hands to WriteError
HandlerCalls ==
    {a \in WrapCalls : a[1] = "Wrap" \/ a[1] = "Handler.Wrap"}

InitHTTP == InitWith(HTTPConfigs)

\* One request after the other is served behind the recovery middleware;
\* errors are wrapped and written with WriteError; detached callbacks run
\* beside them.
NextHTTP ==
    \/ \E a \in RequestCalls :
            CallServeHTTP("g1", a[1], RequestOf(a[2]), a[3], a[4])
    \/ \E a \in HandlerCalls : CallWrap("g1", a[1], a[2], a[3], a[4], a[5])
    \/ \E op \in WriteOps, h \in 1..2, d \in 1..MaxCalls :
            CallWriteError("g1", op, h, d)
    \/ MiddlewareSteps
    \/ WrapSteps

SpecHTTP == InitHTTP /\ [][NextHTTP]_vars

\* The configurations handed to New: every one a program writes, the zero
\* Config among them, and DefaultConfig()
NewConfigs == UserConfigs \cup {DefaultConfig}

\* The wraps made on a handler the program made
NewCalls ==
    {a \in WrapCalls : a[1] = "Handler.WrapWithDetails" /\ a[3] = Err1}

InitNew == InitWith({})

\* A program makes handlers and wraps errors with the one it made first
NextNew ==
    \/ \E cfg \in NewConfigs : CallNew("g1", cfg)
    \/ \E a \in NewCalls : CallWrap("g1", a[1], a[2], a[3], a[4], a[5])
    \/ WrapSteps

SpecNew == InitNew /\ [][NextNew]_vars

\* The envelopes a program holds when it calls their methods
Envelopes ==
    [ID         : {CustomID, "ERR-20251023-a3f9b2"},
     Original   : {Err1, <<"panicError", "something went wrong">>},
     Context    : {"", "database query failed"},
     Details    : {Nil},
     Timestamp  : {Clock0},
     StackTrace : {NoStackTrace}]

\* The package after initialisation, and two envelopes of the program
InitError ==
    /\ build \in Builds
    /\ now = Clock0
    /\ handlers = <<New(DefaultConfig)>>
    /\ defaultHandler = 1
    /\ configured = FALSE
    /\ configureMu = NoGoroutine
    /\ maps = <<>>
    /\ \E e1, e2 \in Envelopes : envs = <<e1, e2>>
    /\ cb = <<NoCallback, NoCallback>>
    /\ calls = <<>>
    /\ generated = <<>>
    /\ logged = <<>>
    /\ resp = <<>>
    /\ middlewares = <<>>

NextError == \E e \in 1..2 : CallError("g1", e)

SpecError == InitError /\ [][NextError]_vars

\* The instants at which identifiers are generated: the first second of the
\* Unix epoch, the leap day of 2000, the last second of 2025-10-23, the first
\* of 2025-10-24, and the last second a 32-bit time_t holds (2038-01-19)
GenerateClocks ==
    {0, 11016 * SecondsPerDay, Clock0, Clock0 + 1, 2147483647}

\* What crypto/rand.Read and the nanosecond clock give a call
GenerateSources ==
    [ok    : BOOLEAN,
     bytes : {<<0, 0, 0>>, <<163, 249, 178>>, <<255, 255, 255>>, <<10, 11, 9>>},
     nsec  : {0, 5, 123000042, 999999999},
     dt    : {0}]

InitGenerate ==
    /\ build \in Builds
    /\ now \in GenerateClocks
    /\ handlers = <<New(DefaultConfig)>>
    /\ defaultHandler = 1
    /\ configured = FALSE
    /\ configureMu = NoGoroutine
    /\ maps = <<>>
    /\ envs = <<>>
    /\ cb = <<>>
    /\ calls = <<>>
    /\ generated = <<>>
    /\ logged = <<>>
    /\ resp = <<>>
    /\ middlewares = <<>>

\* A program generates identifiers, one after the other
NextGenerate ==
    \E t \in GenerateClocks, src \in GenerateSources :
        CallGenerateErrorID("g1", t, src)

SpecGenerate == InitGenerate /\ [][NextGenerate]_vars

\* The handlers shared by concurrent wraps: a detached callback that
\* returns, or one that panics in the wrap's goroutine
SharedConfigs ==
    {cfg \in WrapConfigs :
        /\ cfg.OnError \in {"returns", "panics"}
        /\ cfg.AsyncCallback = (cfg.OnError = "returns")
        /\ cfg.Logger = "nil"
        /\ ~cfg.IncludeStackTrace}

\* The wraps goroutines make on the shared handler
SharedCalls == {a \in WrapCalls : a[1] = "Handler.WrapWithDetails"}

InitShared == InitWith(SharedConfigs)

\* The concurrent wraps are made within one second, crypto/rand working
SharedSources == {src \in RandSources : src.ok}

\* Goroutines wrap errors on one handler, concurrently
NextShared ==
    \/ \E g \in Goroutines, a \in SharedCalls :
            Caller(g) /\ CallWrap(g, a[1], a[2], a[3], a[4], a[5])
    \/ \E c \in 1..MaxCalls, src \in SharedSources : Generate(c, src)
    \/ \E c \in 1..MaxCalls : Log(c)
    \/ \E c \in 1..MaxCalls : Dispatch(c)
    \/ \E c \in 1..MaxCalls : SyncCallbackEnd(c)
    \/ \E c \in 1..MaxCalls : DetachedStart(c)
    \/ \E c \in 1..MaxCalls : DetachedEnd(c)
    \/ \E c \in 1..MaxCalls : ReturnWrapped(c)

SpecShared == InitShared /\ [][NextShared]_vars

\* The handlers of the middleware under requests alone: no callback or one
\* that returns, called in the request's goroutine or detached
RecoverConfigs ==
    {cfg \in HTTPConfigs :
        /\ cfg.Environment = "production"
        /\ cfg.OnError \in {"nil", "returns"}}

InitRecover == InitWith(RecoverConfigs)

\* One request after the other is served behind the recovery middleware of
\* the default handler or of the handler the program made
NextRecover ==
    \/ \E a \in RequestCalls :
            CallServeHTTP("g1", a[1], RequestOf(a[2]), a[3], a[4])
    \/ MiddlewareSteps
    \/ WrapSteps

SpecRecover == InitRecover /\ [][NextRecover]_vars

\* The requests served by a middleware of the package
BoundRequests == {a \in RequestCalls : a[1] = 1}

InitBound == InitWith({})

\* A program makes a middleware with the package's RecoveryMiddleware,
\* calls Configure, serves requests and calls the package's Wrap and
\* WriteError, in any order.
NextBound ==
    \/ CallRecoveryMiddleware("g1")
    \/ \E cfg \in ConfigureConfigs : CallConfigure("g1", cfg)
    \/ ConfigureSteps
    \/ \E m \in 1..MaxMiddlewares, a \in BoundRequests :
            CallServeBound("g1", m, RequestOf(a[2]), a[3], a[4])
    \/ \E a \in PackageWrapCalls : CallWrap("g1", a[1], Default, a[3], a[4], a[5])
    \/ \E d \in 1..MaxCalls : CallWriteError("g1", "WriteError", Default, d)
    \/ MiddlewareSteps
    \/ WrapSteps

SpecBound == InitBound /\ [][NextBound]_vars

\* The handlers with a detached callback
AsyncConfigs ==
    {cfg \in WrapConfigs :
        /\ cfg.AsyncCallback
        /\ cfg.OnError \in UserCallbacks
        /\ ~cfg.IncludeStackTrace}

\* The wraps made beside detached callbacks: of a nil error, on the default
\* handler (whose callback is called in the caller's goroutine), and on
\* the handler with the detached callback
AsyncCalls ==
    {a \in WrapCalls :
        \/ a[1] = "Wrap"
        \/ a[1] = "Handler.WrapWithDetails" /\ a[3] = Err1}

InitAsync == InitWith(AsyncConfigs)

\* The scheduler runs every goroutine that can take a step: a wrap that
\* was entered goes on to its end, and a goroutine that was started runs.
Fairness ==
    \A c \in 1..MaxCalls :
        /\ WF_vars(\E src \in RandSources : Generate(c, src))
        /\ WF_vars(Log(c))
        /\ WF_vars(Dispatch(c))
        /\ WF_vars(SyncCallbackEnd(c))
        /\ WF_vars(ReturnWrapped(c))
        /\ WF_vars(DetachedStart(c))
        /\ WF_vars(DetachedEnd(c))

NextAsync ==
    \/ \E a \in AsyncCalls : CallWrap("g1", a[1], a[2], a[3], a[4], a[5])
    \/ WrapSteps

SpecAsync == InitAsync /\ [][NextAsync]_vars /\ Fairness

-----------------------------------------------------------------------------
(* Properties *)

ErrorEntries(c) ==
    {i \in 1..Len(logged) : logged[i].kind = "Error" /\ logged[i].call = c}

InfoEntries(c) ==
    {i \in 1..Len(logged) : logged[i].kind = "Info" /\ logged[i].call = c}

GeneratedFor(c) == {i \in 1..Len(generated) : generated[i].call = c}

\* The calls whose wrap is past the statement at pc "callback"
PastCallback(c) == calls[c].pc \in {"return", "respond", "done"}

Completed(e) == cb[e].state \in {"returned", "recovered"}

\* C1: wrapping a nil error returns nil and does nothing else: the call is
\* over at once with a nil result and no envelope, no IDGenerator call, no
\* Logger call and no OnError invocation is made for it; every generator
\* call, envelope and log entry belongs to a wrap of a non-nil error.
C1_NilWrapIsNoOp ==
    /\ \A c \in CallIds :
          (calls[c].op \in WrapOps /\ calls[c].err = NilErr) =>
             /\ calls[c].pc = "done"
             /\ calls[c].ret = "nil"
             /\ calls[c].env = Nil
             /\ GeneratedFor(c) = {}
             /\ ErrorEntries(c) = {}
             /\ InfoEntries(c) = {}
    /\ Len(generated) =
          Cardinality({c \in CallIds : calls[c].err # NilErr
                                        /\ calls[c].pc # "generate"})
    /\ Len(envs) = Len(generated)
    /\ Len(cb) = Len(envs)
    /\ \A i \in 1..Len(logged) : calls[logged[i].call].err # NilErr

C1_Witness ==
    \E c \in CallIds :
        /\ calls[c].op = "Handler.WrapWithDetails"
        /\ calls[c].err = NilErr
        /\ calls[c].det # Nil
        /\ CfgOf(c).OnError \in UserCallbacks
        /\ calls[c].pc = "done"
        /\ c > 1
        /\ Len(logged) > 0

\* C2: a wrap of a non-nil error returns an envelope whose ID is what the
\* one call it made of its handler's IDGenerator returned (the custom
\* generator's value verbatim), whose Original, Context and Details are the
\* arguments, and whose Timestamp is the clock's reading.
C2_WrapReturnsEnvelope ==
    \A c \in CallIds :
        (calls[c].op \in WrapOps /\ calls[c].err # NilErr /\ calls[c].ret # "none") =>
            /\ calls[c].ret = "env"
            /\ calls[c].env # Nil
            /\ LET e == envs[calls[c].env]
               IN  /\ e.Original = calls[c].err
                   /\ e.Context = calls[c].ctx
                   /\ e.Details = calls[c].det
                   /\ e.Timestamp \in Clock0..now
                   /\ e.Timestamp # 0
                   /\ Cardinality(GeneratedFor(c)) = 1
                   /\ \A i \in GeneratedFor(c) :
                         /\ generated[i].id = e.ID
                         /\ generated[i].h = calls[c].h
                   /\ CfgOf(c).IDGenerator = "customGenerator" => e.ID = CustomID

C2_Witness ==
    \E c \in CallIds :
        /\ calls[c].op = "Handler.WrapWithDetails"
        /\ calls[c].ret = "env"
        /\ calls[c].det # Nil
        /\ CfgOf(c).IDGenerator = "customGenerator"
        /\ envs[calls[c].env].ID = CustomID
        /\ \E d \in CallIds :
              /\ calls[d].ret = "env"
              /\ envs[calls[d].env].ID = "ERR-20251024-000042"

\* C3: the map passed to WrapWithDetails has the same contents after the
\* call as at the call, and the logger is given another map.
C3_DetailsNotMutated ==
    \A c \in CallIds :
        (calls[c].op \in WrapOps /\ calls[c].err # NilErr /\ calls[c].det # Nil) =>
            /\ maps[calls[c].det] = calls[c].det0
            /\ \A i \in ErrorEntries(c) : logged[i].detRef # calls[c].det

\* C4: on a handler with OnError set and AsyncCallback false, a wrap that
\* has returned had its OnError invoked once, in the caller's goroutine,
\* with the envelope it returns, and that invocation is over; the handler's
\* finished invocations are as many as its wraps of non-nil errors that
\* are past the callback.
C4_SyncCallbackBeforeReturn ==
    \A h \in 1..Len(handlers) :
        (handlers[h].OnError # "nil" /\ ~handlers[h].AsyncCallback) =>
            /\ \A c \in CallIds :
                  (calls[c].h = h /\ Wrapping(c) /\ calls[c].ret = "env") =>
                      /\ Completed(calls[c].env)
                      /\ cb[calls[c].env].arg = calls[c].env
                      /\ cb[calls[c].env].started = 1
                      /\ cb[calls[c].env].mode = "sync"
            /\ Cardinality({e \in 1..Len(cb) : cb[e].h = h /\ Completed(e)})
                 = Cardinality({c \in CallIds :
                        /\ calls[c].h = h
                        /\ Wrapping(c)
                        /\ calls[c].env # Nil
                        /\ PastCallback(c)})

C4_Witness ==
    /\ Len(calls) = 2
    /\ \A c \in CallIds :
          /\ calls[c].h = 2
          /\ calls[c].ret = "env"
          /\ Completed(calls[c].env)
    /\ handlers[2].OnError = "returns"
    /\ ~handlers[2].AsyncCallback

\* The wraps of non-nil errors on a handler with OnError set and
\* AsyncCallback true
AsyncWrap(c) ==
    /\ c \in CallIds
    /\ calls[c].err # NilErr
    /\ CfgOf(c).OnError # "nil"
    /\ CfgOf(c).AsyncCallback

\* C5: on a handler with OnError set and AsyncCallback true, a wrap never
\* runs OnError itself and goes from the dispatch straight to its return,
\* whether or not the callback has started or ended; OnError is entered at
\* most once for the envelope, in a detached goroutine, with the envelope
\* the wrap returns; and under fair scheduling every such wrap returns and
\* its one detached invocation is entered.
C5_AsyncCallbackDetached ==
    /\ [](\A c \in CallIds :
            (AsyncWrap(c) /\ calls[c].env # Nil) =>
                /\ calls[c].pc # "oncall"
                /\ cb[calls[c].env].mode # "sync"
                /\ cb[calls[c].env].started <= 1
                /\ PastCallback(c) => cb[calls[c].env].state # "none"
                /\ cb[calls[c].env].started = 1 =>
                      /\ cb[calls[c].env].mode = "async"
                      /\ cb[calls[c].env].arg = calls[c].env)
    /\ [][\A c \in CallIds :
            (AsyncWrap(c) /\ calls[c].pc = "callback" /\ calls'[c].pc # "callback") =>
                /\ calls'[c].pc = "return"
                /\ cb'[calls[c].env].state = "spawned"
                /\ cb'[calls[c].env].started = 0]_vars
    /\ \A c \in 1..MaxCalls :
          AsyncWrap(c) ~>
              /\ c \in CallIds
              /\ calls[c].ret = "env"
              /\ cb[calls[c].env].started = 1
              /\ cb[calls[c].env].arg = calls[c].env

C5_Witness ==
    \E c, d \in CallIds :
        /\ AsyncWrap(c)
        /\ calls[c].pc = "done"
        /\ calls[c].ret = "env"
        /\ cb[calls[c].env].state = "spawned"
        /\ AsyncWrap(d)
        /\ calls[d].ret = "env"
        /\ cb[calls[d].env].state \in {"running", "returned", "recovered"}
        /\ cb[calls[d].env].arg = calls[d].env

\* C6: a panic of OnError stays inside safeCallback: no wrap ends by a panic,
\* no goroutine dies of one, a wrap whose callback panicked goes on to
\* return its envelope, and Logger.Info is called once for a callback that
\* panicked and not at all for any other.
C6_CallbackPanicContained ==
    \A c \in CallIds :
        calls[c].env # Nil =>
            /\ calls[c].ret # "panic"
            /\ cb[calls[c].env].state # "crashed"
            /\ Cardinality(InfoEntries(c)) =
                  (IF cb[calls[c].env].state = "recovered" THEN 1 ELSE 0)
            /\ \A i \in InfoEntries(c) :
                  logged[i].msg = "OnError callback panicked: " \o CallbackPanicValue
            /\ (cb[calls[c].env].state = "recovered" /\ cb[calls[c].env].mode = "sync")
                  => PastCallback(c)
            /\ calls[c].pc = "done" => calls[c].ret = "env"

C6_Witness ==
    \E c, d \in CallIds :
        /\ c # d
        /\ calls[c].ret = "env"
        /\ cb[calls[c].env].state = "recovered"
        /\ Cardinality(InfoEntries(c)) = 1
        /\ calls[d].ret = "env"
        /\ calls[d].h = 1
        /\ cb[calls[d].env].state = "returned"

ConfigureCalls == {c \in CallIds : calls[c].op = "Configure"}

InConfigure == {c \in ConfigureCalls : calls[c].pc \in {"check", "install", "set"}}

Panicked(c) == calls[c].op = "ServeHTTP" /\ calls[c].rec # NoPanic

\* C9: a request whose handler panicked is answered, whatever the handler
\* wrote before, by one response with status 500, Content-Type
\* application/json and a body that is the one JSON object with error_id
\* the envelope's ID, a message and timestamp the envelope's Timestamp.
C9_PanicAnsweredBy500JSON ==
    \A c \in CallIds :
        (Panicked(c) /\ calls[c].pc = "done") =>
            /\ calls[c].env # Nil
            /\ resp[c].status = StatusInternalServerError
            /\ resp[c].contentType = "application/json"
            /\ Len(resp[c].encoded) = 1
            /\ resp[c].encoded[1].ErrorID = envs[calls[c].env].ID
            /\ resp[c].encoded[1].Timestamp = envs[calls[c].env].Timestamp
            /\ resp[c].body = <<EncodeJSON(resp[c].encoded[1])>>

\* C10: no panic of the wrapped handler leaves the middleware: a request
\* whose handler panicked, with an error or with any other value, ends by
\* a normal return of ServeHTTP after a response was written, also when
\* OnError panics; no request ends by a panic.
C10_NoPanicEscapesMiddleware ==
    \A c \in CallIds :
        calls[c].op = "ServeHTTP" =>
            /\ calls[c].ret # "panic"
            /\ calls[c].pc = "done" => calls[c].ret = "ok"
            /\ calls[c].env # Nil => cb[calls[c].env].state # "crashed"
            /\ (Panicked(c) /\ calls[c].pc = "done") =>
                  /\ resp[c].wroteHeader
                  /\ Len(resp[c].encoded) = 1
            /\ (Panicked(c) /\ calls[c].pc # "recover") =>
                  ErrorText(calls[c].err) =
                     (IF IsErrorValue(calls[c].rec) THEN "" ELSE "panic: ")
                        \o calls[c].rec[2]

C10_Witness ==
    \E c, d \in CallIds :
        /\ Panicked(c)
        /\ ~IsErrorValue(calls[c].rec)
        /\ CfgOf(c).OnError = "panics"
        /\ ~CfgOf(c).AsyncCallback
        /\ calls[c].pc = "done"
        /\ calls[c].ret = "ok"
        /\ cb[calls[c].env].state = "recovered"
        /\ Panicked(d)
        /\ IsErrorValue(calls[d].rec)
        /\ calls[d].ret = "ok"

\* The error responses written: <<call, index of the encoded value>>
ErrorResponses ==
    {r \in CallIds \X (1..MaxCalls) : r[2] <= Len(resp[r[1]].encoded)}

\* C11: the message of every error response written by a handler whose
\* Environment is not "development" ("production" and "" included) is the
\* fixed generic string, the same for any two such responses whatever the
\* error, context and details; with "development" it is the envelope's
\* Error() rendering, which ends with the text of the original error.
C11_MessageByEnvironment ==
    /\ \A r \in ErrorResponses :
          LET c == r[1]
              e == envs[calls[c].env]
              response == resp[c].encoded[r[2]]
              body == resp[c].body[Len(resp[c].body)]
              prefix == "[" \o e.ID \o "] "
                          \o (IF e.Context = "" THEN "" ELSE e.Context \o ": ")
              text == IF calls[c].err[1] = "panicError"
                      THEN "panic: " \o calls[c].rec[2] ELSE calls[c].err[2]
          IN  IF CfgOf(c).Environment = "development"
              THEN /\ response.Message = Error(e)
                   /\ response.Message = prefix \o text
                   /\ body = EncodeJSON([ErrorID |-> e.ID, Message |-> prefix \o text,
                                          Timestamp |-> e.Timestamp])
              ELSE /\ response.Message = GenericMessage
                   /\ body = EncodeJSON([ErrorID |-> e.ID, Message |-> GenericMessage,
                                          Timestamp |-> e.Timestamp])
    /\ \A r, q \in ErrorResponses :
          (/\ CfgOf(r[1]).Environment # "development"
           /\ CfgOf(q[1]).Environment # "development") =>
              resp[r[1]].encoded[r[2]].Message = resp[q[1]].encoded[q[2]].Message

C11_Witness ==
    \E r, q \in ErrorResponses :
        /\ CfgOf(r[1]).Environment = "development"
        /\ calls[r[1]].op = "ServeHTTP"
        /\ resp[r[1]].encoded[r[2]].Message =
              "[ERR-20251023-a3f9b2] panic recovered in HTTP handler: panic: something went wrong"
        /\ CfgOf(q[1]).Environment = "production"
        /\ calls[q[1]].op = "ServeHTTP"
        /\ calls[q[1]].rec = <<"int", "42">>
        /\ resp[q[1]].encoded[q[2]].Message = GenericMessage

C13_ErrorRendering ==
    /\ [](\A c \in CallIds :
            calls[c].op = "Error" =>
                LET e == envs[calls[c].env]
                    original == IF e.Original = Err1
                                THEN "connection timeout"
                                ELSE "panic: something went wrong"
                IN  /\ e.Context # "" =>
                          calls[c].out = "[" \o e.ID \o "] " \o e.Context \o ": " \o original
                    /\ e.Context = "" =>
                          calls[c].out = "[" \o e.ID \o "] " \o original)
    /\ [][envs' = envs /\ maps' = maps]_vars

C13_Witness ==
    \E c, d \in CallIds :
        /\ calls[c].op = "Error"
        /\ calls[c].out = "[ERR-20251023-a3f9b2] database query failed: connection timeout"
        /\ calls[d].op = "Error"
        /\ calls[d].out = "[CUSTOM-ID-123] panic: something went wrong"

\* The wraps of non-nil errors that have called the logger
Logged(c) ==
    /\ calls[c].op \in WrapOps
    /\ calls[c].env # Nil
    /\ calls[c].pc \notin {"generate", "log"}

\* C14: for every wrap and either setting of IncludeStackTrace, the details
\* map given to Logger.Error has no stack-trace entry, the stack trace is
\* given as an argument of its own, and the map of the envelope's Details
\* holds what the caller put there and nothing else.
C14_StackTraceSeparate ==
    \A c \in CallIds :
        Logged(c) =>
            /\ \A i \in ErrorEntries(c) :
                  /\ "stack_trace" \notin Keys(logged[i].details)
                  /\ logged[i].stack = envs[calls[c].env].StackTrace
            /\ envs[calls[c].env].Details = calls[c].det
            /\ calls[c].det # Nil => maps[calls[c].det] = calls[c].det0

\* C15: the map given to Logger.Error holds every entry of the caller's
\* details map with the value the caller gave it, and besides those only
\* a "timestamp" entry, which is the envelope's Timestamp.
C15_LoggerGetsUserDataIntact ==
    \A c \in CallIds :
        Logged(c) =>
            \A i \in ErrorEntries(c) :
                /\ calls[c].det0 \subseteq logged[i].details
                /\ Keys(logged[i].details) = Keys(calls[c].det0) \cup {"timestamp"}
                /\ <<"timestamp", IntVal(envs[calls[c].env].Timestamp)>>
                      \in logged[i].details

\* C16: a wrap of a non-nil error calls Logger.Error exactly once, with the
\* envelope's ID, the original error and the context; the call is made
\* before OnError is called or its goroutine started and before the wrap
\* returns, with AsyncCallback true or false.
C16_OneLogBeforeCallback ==
    \A c \in CallIds :
        (calls[c].op \in WrapOps /\ calls[c].err # NilErr) =>
            /\ calls[c].pc \in {"generate", "log"} =>
                  /\ ErrorEntries(c) = {}
                  /\ calls[c].ret = "none"
                  /\ calls[c].env # Nil => cb[calls[c].env].state = "none"
            /\ Logged(c) =>
                  /\ Cardinality(ErrorEntries(c)) = 1
                  /\ \A i \in ErrorEntries(c) :
                        /\ logged[i].id = envs[calls[c].env].ID
                        /\ logged[i].err = calls[c].err
                        /\ logged[i].ctx = calls[c].ctx
                        /\ \A j \in InfoEntries(c) : i < j
            /\ (calls[c].env # Nil /\ cb[calls[c].env].state # "none") => Logged(c)
            /\ calls[c].ret # "none" => Logged(c)

C16_Witness ==
    \E c, d \in CallIds :
        /\ c < d
        /\ calls[c].env # Nil
        /\ calls[d].env # Nil
        /\ CfgOf(c).AsyncCallback
        /\ CfgOf(c).OnError = "panics"
        /\ cb[calls[c].env].state = "recovered"
        /\ Cardinality(ErrorEntries(c)) = 1
        /\ ~CfgOf(d).AsyncCallback
        /\ calls[d].pc = "callback"
        /\ Cardinality(ErrorEntries(d)) = 1
        /\ cb[calls[d].env].state = "none"

\* The lines of a stack trace
Frames(st) == {st[i] : i \in 1..Len(st)}

\* C17: with IncludeStackTrace false the StackTrace of every envelope a
\* wrap returns is empty; with IncludeStackTrace true it is not empty and
\* holds the frame of the function that called Wrap.
C17_StackCaptureToggle ==
    \A c \in CallIds :
        (calls[c].op \in WrapOps /\ calls[c].env # Nil) =>
            IF CfgOf(c).IncludeStackTrace
            THEN /\ envs[calls[c].env].StackTrace # NoStackTrace
                 /\ Len(envs[calls[c].env].StackTrace) > 0
                 /\ "main.caller" \in Frames(envs[calls[c].env].StackTrace)
            ELSE envs[calls[c].env].StackTrace = NoStackTrace

C17_Witness ==
    \E c, d \in CallIds :
        /\ calls[c].op = "Handler.Wrap"
        /\ calls[c].ret = "env"
        /\ CfgOf(c).IncludeStackTrace
        /\ "main.caller" \in Frames(envs[calls[c].env].StackTrace)
        /\ calls[d].op = "Wrap"
        /\ calls[d].ret = "env"
        /\ ~CfgOf(d).IncludeStackTrace
        /\ envs[calls[d].env].StackTrace = NoStackTrace

\* C18: for every Config handed to New, the zero Config included, the
\* handler made has an IDGenerator and a Logger (the default ones where
\* none was given, the given ones otherwise) and the OnError,
\* AsyncCallback, IncludeStackTrace and Environment given; no wrap on such
\* a handler ends by the call of a nil generator, and each calls a logger.
C18_NewSuppliesDefaults ==
    /\ \A c \in CallIds :
          calls[c].op = "New" =>
              LET h == handlers[calls[c].h]
                  cfg == calls[c].cfg
              IN  /\ h.IDGenerator # "nil"
                  /\ h.Logger # "nil"
                  /\ h.IDGenerator =
                        (IF cfg.IDGenerator = "nil" THEN "GenerateErrorID"
                                                    ELSE cfg.IDGenerator)
                  /\ h.Logger =
                        (IF cfg.Logger = "nil" THEN "DefaultLogger" ELSE cfg.Logger)
                  /\ h.OnError = cfg.OnError
                  /\ h.AsyncCallback = cfg.AsyncCallback
                  /\ h.IncludeStackTrace = cfg.IncludeStackTrace
                  /\ h.Environment = cfg.Environment
    /\ \A h \in 1..Len(handlers) :
          handlers[h].IDGenerator # "nil" /\ handlers[h].Logger # "nil"
    /\ \A c \in CallIds :
          calls[c].op \in WrapOps =>
              /\ calls[c].ret # "panic"
              /\ Logged(c) => Cardinality(ErrorEntries(c)) = 1

C18_Witness ==
    \E c, d \in CallIds :
        /\ calls[c].op = "New"
        /\ calls[c].cfg.IDGenerator = "nil"
        /\ calls[c].cfg.Logger = "nil"
        /\ calls[c].cfg.OnError = "nil"
        /\ calls[c].cfg.Environment = ""
        /\ ~calls[c].cfg.AsyncCallback
        /\ ~calls[c].cfg.IncludeStackTrace
        /\ calls[d].op = "Handler.WrapWithDetails"
        /\ calls[d].h = calls[c].h
        /\ calls[d].ret = "env"
        /\ envs[calls[d].env].ID = "ERR-20251023-a3f9b2"
        /\ \E i \in ErrorEntries(d) : logged[i].logger = "DefaultLogger"

\* The calls that take the process-wide handler
GlobalCalls == {c \in CallIds : calls[c].op \in PackageOps \cup {"Default"}}

\* C19: every call of Default() and of the package's Wrap and
\* WrapWithDetails gets a handler that is not nil: the handler of package
\* initialisation while no Configure has installed one, the installed one
\* afterwards; the process-wide handler changes only when Configure
\* installs one, so two calls with no Configure between them get the same
\* handler; and a package wrap generates, logs and calls back with the
\* handler it got.
C19_SingleGlobalHandler ==
    /\ [][\A c \in 1..MaxCalls :
            (/\ c = Len(calls) + 1
             /\ Len(calls') = c
             /\ calls'[c].op \in PackageOps \cup {"Default"}) =>
                /\ calls'[c].h # Nil
                /\ calls'[c].h \in 1..Len(handlers)
                /\ IF \E d \in ConfigureCalls : calls[d].h # Nil
                   THEN \E d \in ConfigureCalls :
                           /\ calls'[c].h = calls[d].h
                           /\ handlers[calls'[c].h] = New(calls[d].cfg)
                   ELSE /\ calls'[c].h = InitialHandler
                        /\ handlers[calls'[c].h] = New(DefaultConfig)]_vars
    /\ [][defaultHandler' # defaultHandler =>
            \E c \in ConfigureCalls :
                calls[c].pc = "install" /\ calls'[c].pc = "set"]_vars
    /\ [](\A c \in GlobalCalls :
            /\ \A i \in GeneratedFor(c) : generated[i].h = calls[c].h
            /\ \A i \in ErrorEntries(c) \cup InfoEntries(c) :
                  /\ logged[i].h = calls[c].h
                  /\ logged[i].logger = handlers[calls[c].h].Logger
            /\ (calls[c].env # Nil /\ cb[calls[c].env].state # "none") =>
                  cb[calls[c].env].h = calls[c].h)

C19_Witness ==
    \E c, d \in CallIds :
        /\ calls[c].op = "Configure"
        /\ calls[c].ret = "ok"
        /\ c < d
        /\ calls[d].op = "Default"
        /\ calls[d].h = calls[c].h
        /\ calls[d].h # InitialHandler
        /\ handlers[calls[d].h].Environment = "development"

\* The wraps made on handler h that have got their identifier
WrapsOn(h) == {c \in CallIds : calls[c].h = h /\ Wrapping(c) /\ calls[c].env # Nil}

\* C20: a wrap on a handler, made directly or by its middleware, calls the
\* generator, the logger and the OnError of that handler and of no other:
\* every generator call, log entry and callback is the one of the handler
\* of its wrap, and each handler's generator and logger are called as often
\* as wraps were made on it; and no step of a wrap, a request or a WriteError
\* changes the configuration of a handler.
C20_HandlersIndependent ==
    /\ [](\A c \in CallIds :
            (Wrapping(c) /\ calls[c].env # Nil) =>
                /\ \A i \in GeneratedFor(c) :
                      /\ generated[i].h = calls[c].h
                      /\ (generated[i].id = CustomID)
                            = (handlers[calls[c].h].IDGenerator = "customGenerator")
                /\ \A i \in ErrorEntries(c) \cup InfoEntries(c) :
                      /\ logged[i].h = calls[c].h
                      /\ logged[i].logger = handlers[calls[c].h].Logger
                /\ cb[calls[c].env].state # "none" =>
                      /\ cb[calls[c].env].h = calls[c].h
                      /\ handlers[calls[c].h].OnError # "nil"
                      /\ (cb[calls[c].env].mode = "async")
                            = handlers[calls[c].h].AsyncCallback
                /\ cb[calls[c].env].state = "recovered" =>
                      handlers[calls[c].h].OnError = "panics")
    /\ [](\A h \in 1..Len(handlers) :
            /\ Cardinality({i \in 1..Len(generated) : generated[i].h = h})
                  = Cardinality(WrapsOn(h))
            /\ Cardinality({i \in 1..Len(logged) :
                                logged[i].h = h /\ logged[i].kind = "Error"})
                  = Cardinality({c \in WrapsOn(h) : calls[c].pc # "log"})
            /\ Cardinality({e \in 1..Len(cb) : cb[e].h = h})
                  <= Cardinality(WrapsOn(h)))
    /\ [][/\ Len(handlers') >= Len(handlers)
          /\ \A h \in 1..Len(handlers) : handlers'[h] = handlers[h]]_vars

C20_Witness ==
    \E c, d \in CallIds :
        /\ calls[c].op = "ServeHTTP"
        /\ calls[c].h = 2
        /\ calls[c].pc = "done"
        /\ calls[c].env # Nil
        /\ handlers[2].OnError = "panics"
        /\ cb[calls[c].env].state = "recovered"
        /\ \E i \in InfoEntries(c) : logged[i].logger = "customLogger"
        /\ calls[d].op = "Wrap"
        /\ calls[d].h = 1
        /\ calls[d].ret = "env"
        /\ cb[calls[d].env].state = "returned"
        /\ \E i \in ErrorEntries(d) : logged[i].logger = "DefaultLogger"
        /\ InfoEntries(d) = {}

-----------------------------------------------------------------------------

DigitSet == {DigitChars[i] : i \in 1..Len(DigitChars)}
HexSet == {HexChars[i] : i \in 1..Len(HexChars)}

\* s is ERR-<8 digits>-<6 characters of 0-9a-f>
WellFormedID(s) ==
    /\ Len(s) = 19
    /\ SubSeq(s, 1, 4) = "ERR-"
    /\ \A i \in 5..12 : SubSeq(s, i, i) \in DigitSet
    /\ SubSeq(s, 13, 13) = "-"
    /\ \A i \in 14..19 : SubSeq(s, i, i) \in HexSet

GenerateCalls == {c \in CallIds : calls[c].op = "GenerateErrorID"}

\* C21: every call of GenerateErrorID returns, and what it returns is
\* ERR-<8 digits>-<6 characters from 0-9a-f>, whether the random source
\* gave the bytes or the clock's nanoseconds were used in their place.
C21_GeneratedIDFormat ==
    \A c \in GenerateCalls :
        /\ calls[c].pc = "done"
        /\ calls[c].ret = "ok"
        /\ WellFormedID(calls[c].out)

\* Both paths were taken: the random bytes a3 f9 b2 on 2025-10-23, and the
\* fallback with 42 nanoseconds past the millisecond on 2000-02-29.
C21_Witness ==
    /\ \E c \in GenerateCalls : calls[c].out = "ERR-20251023-a3f9b2"
    /\ \E c \in GenerateCalls : calls[c].out = "ERR-20000229-000042"

-----------------------------------------------------------------------------

\* The requests whose panic was recovered and wrapped
PanicWrapped(c) ==
    /\ c \in CallIds
    /\ Panicked(c)
    /\ calls[c].env # Nil

\* C22: the Original of the envelope made for a recovered panic is the
\* panic value itself when that value is an error (the same value, type,
\* text and address), and otherwise a panicError whose Error() is "panic: "
\* followed by the rendered value.
C22_PanicValueAsOriginal ==
    \A c \in CallIds :
        PanicWrapped(c) =>
            LET orig == envs[calls[c].env].Original
                rec == calls[c].rec
            IN  IF IsErrorValue(rec)
                THEN orig = rec
                ELSE /\ orig[1] = "panicError"
                     /\ ErrorText(orig) = "panic: " \o rec[2]

\* One request panicked with an error value and one with the integer 42;
\* both were answered.
C22_Witness ==
    \E c, d \in CallIds :
        /\ PanicWrapped(c) /\ calls[c].pc = "done"
        /\ calls[c].rec = Err1
        /\ envs[calls[c].env].Original = Err1
        /\ PanicWrapped(d) /\ calls[d].pc = "done"
        /\ calls[d].rec = <<"int", "42">>
        /\ ErrorText(envs[calls[d].env].Original) = "panic: 42"

-----------------------------------------------------------------------------

-----------------------------------------------------------------------------

\* The frames of the wrap operation and of the capture helper
OwnFrames ==
    {"errorid.captureStackTrace", "errorid.(*Handler).WrapWithDetails",
     "errorid.(*Handler).Wrap", "errorid.WrapWithDetails", "errorid.Wrap"}

\* C24: with IncludeStackTrace set, the StackTrace of the envelope a wrap
\* makes holds no frame of WrapWithDetails or Wrap and none of
\* captureStackTrace: after the goroutine header it starts at the frame of
\* the function that called the wrap.
C24_StackStartsAtCaller ==
    \A c \in CallIds :
        (calls[c].op \in WrapOps /\ calls[c].env # Nil
            /\ CfgOf(c).IncludeStackTrace) =>
            LET st == envs[calls[c].env].StackTrace
            IN  /\ Frames(st) \cap OwnFrames = {}
                /\ Len(st) >= 2
                /\ st[2] = "main.caller"

-----------------------------------------------------------------------------

\* The Configure call c was made after the wrap d of the package had
\* returned an envelope: the same goroutine made d first.
AfterPackageWrap(c, d) ==
    /\ calls[c].op = "Configure"
    /\ calls[d].op \in PackageOps
    /\ calls[d].env # Nil
    /\ calls[d].g = calls[c].g
    /\ d < c

\* C25: a Configure called after a Wrap or WrapWithDetails of the package
\* was performed installs nothing and ends by a panic.
C25_ConfigureAfterWrapPanics ==
    \A c, d \in CallIds :
        AfterPackageWrap(c, d) =>
            /\ calls[c].pc \notin {"install", "set"}
            /\ calls[c].pc = "done" => calls[c].ret = "panic"

-----------------------------------------------------------------------------

\* The entries the loggers got for the call c, of either kind
LogEntriesOf(c) == {i \in 1..Len(logged) : logged[i].call = c}

\* C26: a request whose handler returns normally is done when next
\* returns: the middleware makes no envelope, generates no identifier, calls
\* neither a Logger nor OnError, and the response holds what the handler
\* wrote and nothing else.
C26_NormalReturnAddsNothing ==
    \A c \in CallIds :
        (calls[c].op = "ServeHTTP" /\ calls[c].rec = NoPanic) =>
            /\ calls[c].pc = "done"
            /\ calls[c].ret = "ok"
            /\ calls[c].env = Nil
            /\ calls[c].det = Nil
            /\ GeneratedFor(c) = {}
            /\ LogEntriesOf(c) = {}
            /\ \A e \in 1..Len(envs) :
                  \E d \in CallIds : d # c /\ Wrapping(d) /\ calls[d].env = e
            /\ Len(cb) = Len(envs)
            /\ resp[c].encoded = <<>>
            /\ resp[c] \in {NextWrites(NoResponse, w) : w \in {"none", "header", "body"}}

\* A request whose handler wrote a body and returned, then one whose
\* handler wrote nothing and returned; only calls of ServeHTTP were made.
C26_Witness ==
    /\ Len(calls) = 2
    /\ \A c \in CallIds : calls[c].op = "ServeHTTP" /\ calls[c].rec = NoPanic
    /\ resp[1].body # <<>>
    /\ resp[1].status = 200
    /\ resp[2] = NoResponse
    /\ envs = <<>> /\ generated = <<>> /\ logged = <<>>

-----------------------------------------------------------------------------

\* The calls of Configure that ended by a panic
PanickedConfigure == {c \in ConfigureCalls : calls[c].ret = "panic"}

-----------------------------------------------------------------------------

\* The wraps of a non-nil error
NonNilWraps == {c \in CallIds : Wrapping(c) /\ calls[c].err # NilErr}

\* The keys logError sets in the map it hands to the logger
LoggerKeys == {"timestamp", "stack_trace"}

\* Every wrap has returned and every callback has ended
Quiescent ==
    /\ \A c \in CallIds : calls[c].pc = "done"
    /\ \A e \in 1..Len(cb) : Completed(e)

-----------------------------------------------------------------------------

-----------------------------------------------------------------------------

\* The calls of WriteError, of the package or of a handler
WriteErrorCalls == {c \in CallIds : calls[c].op \in WriteOps}

\* C30: every call of WriteError or Handler.WriteError with what a wrap
\* returned, the nil envelope of a nil error included, returns normally
\* having written one JSON object with status 500; and the envelope the
\* recovery middleware hands to writeErrorResponse is never nil.
C30_WriteErrorNeverFaults ==
    /\ \A c \in WriteErrorCalls :
          /\ calls[c].ret = "ok"
          /\ resp[c].status = StatusInternalServerError
          /\ resp[c].contentType = "application/json"
          /\ Len(resp[c].encoded) = 1
          /\ resp[c].body = <<EncodeJSON(resp[c].encoded[1])>>
    /\ \A c \in CallIds :
          (calls[c].op = "ServeHTTP" /\ calls[c].pc = "respond") =>
              calls[c].env # Nil

====
